---- MODULE Spec2Model ----
(***************************************************************************)
(* Sharing analysis of the canonical expression tree (src/can/sharing.rs). *)
(*                                                                         *)
(* sharing_analysis walks an Expr and records, per Symbol, a               *)
(* ReferenceCount (Unique or Shared) in a HashMap.  The model runs the     *)
(* recursion on an explicit stack of activation frames; the maps the       *)
(* activations borrow (the caller's map and the `local` clone of every     *)
(* Case branch under analysis) are kept in `maps`, innermost last.         *)
(*                                                                         *)
(* Patterns, regions, type variables and field labels are carried by the   *)
(* source's Expr but never inspected by sharing_analysis (they are bound   *)
(* to `_`), so the model's expressions do not carry them.                  *)
(***************************************************************************)
EXTENDS Integers, Sequences, FiniteSets, TLC

VARIABLES
    expr,    \* the expression handed to the outermost sharing_analysis call
    maps,    \* maps[1]: the caller's usage map; maps[k+1]: `local` of the k-th Case being forked
    stack,   \* activation frames of sharing_analysis, innermost last
    run,     \* which analysis of expr this is: the first or a repeated one
    first    \* the usage map the first analysis of expr produced (kept for a repeated one)

vars == <<expr, maps, stack, run, first>>

----------------------------------------------------------------------------
(* Bounds of the checked input space. *)

\* Every expression of at most MaxNodes nodes over every Expr form.
MaxNodes == 3

\* Every expression of at most MaxCaseNodes nodes built of Var, Int and Case.
MaxCaseNodes == 6

Symbols == {"x", "y"}

----------------------------------------------------------------------------
(* ReferenceCount *)

Unique == "Unique"
Shared == "Shared"

ReferenceCount == {Unique, Shared}

\* Slip: a second reference leaves the count it found.
addKeepsCurrent(a, b) == a

add(a, b) == Shared

\* Slip: `or` degrades like `add`.
orAlwaysShared(a, b) == Shared

\* Slip: `or` ignores what the branch found.
orKeepsCurrent(a, b) == a

or(a, b) == IF a = Unique /\ b = Unique THEN Unique ELSE Shared

----------------------------------------------------------------------------
(* HashMap<Symbol, ReferenceCount>: a function on the set of its keys. *)

EmptyMap == [s \in {} |-> Unique]

insert(usage, key, value) ==
    [s \in (DOMAIN usage) \cup {key} |-> IF s = key THEN value ELSE usage[s]]

remove(usage, key) == [s \in (DOMAIN usage) \ {key} |-> usage[s]]

register(symbol, usage) ==
    LET value == IF symbol \notin DOMAIN usage
                 THEN Unique
                 ELSE add(usage[symbol], Unique)
    IN  insert(usage, symbol, value)

\* Slip: an entry the outer map already has is left as it is.
mergeKeepsOuter(usage, key, value) ==
    IF key \notin DOMAIN usage THEN insert(usage, key, value) ELSE usage

\* Slip: an entry the outer map lacks is not inserted.
mergeDropsNew(usage, key, value) ==
    IF key \notin DOMAIN usage THEN usage ELSE insert(usage, key, or(usage[key], value))

\* One iteration of `for (key, value) in local` in the Case arm.
mergeEntry(usage, key, value) ==
    IF key \notin DOMAIN usage
    THEN insert(usage, key, value)
    ELSE insert(usage, key, or(usage[key], value))

----------------------------------------------------------------------------
(* Expr *)

LiteralTags == {"Int", "Float", "Str", "BlockStr", "EmptyRecord", "RuntimeError"}

Var(symbol)                   == [tag |-> "Var", symbol |-> symbol]
FunctionPointer(symbol)       == [tag |-> "FunctionPointer", symbol |-> symbol]
Literal(tag)                  == [tag |-> tag]
List(elements)                == [tag |-> "List", elements |-> elements]
Case(cond, branches)          == [tag |-> "Case", cond |-> cond, branches |-> branches]
Defs(assignments, body)       == [tag |-> "Defs", assignments |-> assignments, body |-> body]
CallByName(symbol, arguments) == [tag |-> "CallByName", symbol |-> symbol, arguments |-> arguments]
CallPointer(function, arguments) ==
    [tag |-> "CallPointer", function |-> function, arguments |-> arguments]
Record(fields)                == [tag |-> "Record", fields |-> fields]
Field(record)                 == [tag |-> "Field", record |-> record]

AllTags == LiteralTags \cup {"Var", "FunctionPointer", "List", "Case", "Defs",
                             "CallByName", "CallPointer", "Record", "Field"}

\* A table by size: tab[k].exprs are the expressions of k nodes, tab[k].seqs
\* the non-empty sequences of expressions with k nodes in total.
SizedExprs(tab, k) == tab[k].exprs
SizedSeqs(tab, m)  == IF m = 0 THEN {<<>>} ELSE tab[m].seqs

\* The expressions of n nodes whose tags are all in T, given the table of
\* the smaller sizes.
ExprsOfSize(T, n, tab) ==
    (IF n = 1
     THEN {Literal(t) : t \in LiteralTags \cap T}
          \cup (IF "Var" \in T THEN {Var(s) : s \in Symbols} ELSE {})
          \cup (IF "FunctionPointer" \in T
                THEN {FunctionPointer(s) : s \in Symbols} ELSE {})
     ELSE {})
    \cup (IF "List" \in T THEN {List(es) : es \in SizedSeqs(tab, n - 1)} ELSE {})
    \cup (IF "Record" \in T THEN {Record(es) : es \in SizedSeqs(tab, n - 1)} ELSE {})
    \cup (IF "Field" \in T /\ n > 1
          THEN {Field(e) : e \in SizedExprs(tab, n - 1)} ELSE {})
    \cup (IF "CallByName" \in T
          THEN {CallByName(s, es) : s \in Symbols, es \in SizedSeqs(tab, n - 1)}
          ELSE {})
    \cup (IF "Case" \in T
          THEN UNION {{Case(c, bs) : c \in SizedExprs(tab, k),
                                     bs \in SizedSeqs(tab, n - 1 - k)} : k \in 1..(n - 1)}
          ELSE {})
    \cup (IF "Defs" \in T
          THEN UNION {{Defs(as, b) : as \in SizedSeqs(tab, n - 1 - k),
                                     b \in SizedExprs(tab, k)} : k \in 1..(n - 1)}
          ELSE {})
    \cup (IF "CallPointer" \in T
          THEN UNION {{CallPointer(f, es) : f \in SizedExprs(tab, k),
                                            es \in SizedSeqs(tab, n - 1 - k)} : k \in 1..(n - 1)}
          ELSE {})

RECURSIVE BySize(_, _, _)

\* The table of sizes 1..max over T, built from size Len(tab) + 1 upwards.
BySize(T, max, tab) ==
    LET n     == Len(tab) + 1
        exprs == ExprsOfSize(T, n, tab)
        seqs  == IF n >= max THEN {}
                 ELSE UNION {{<<e>> \o es : e \in (IF k = n THEN exprs ELSE SizedExprs(tab, k)),
                                           es \in SizedSeqs(tab, n - k)} : k \in 1..n}
    IN  IF n > max THEN tab
        ELSE BySize(T, max, Append(tab, [exprs |-> exprs, seqs |-> seqs]))

\* The expressions of at most max nodes whose tags are all in T.
Exprs(T, max) ==
    LET tab == BySize(T, max, <<>>)
    IN  UNION {tab[k].exprs : k \in 1..Len(tab)}

\* The six literal forms share one arm; inside larger expressions two of
\* them stand for all, and each of the six is an input on its own.
FormTags == AllTags \ {"Float", "Str", "BlockStr", "EmptyRecord"}

CaseTags == {"Var", "Int", "Case"}

\* The expressions the analysis is run on.
IsInput(e) ==
    \/ e \in {Literal(t) : t \in LiteralTags}
    \/ e \in Exprs(FormTags, MaxNodes)
    \/ e \in Exprs(CaseTags, MaxCaseNodes)

----------------------------------------------------------------------------
(* The recursion of sharing_analysis *)

Frame(e) == [expr |-> e, i |-> 0, merging |-> FALSE]

top      == stack[Len(stack)]
usage    == maps[Len(maps)]

Init ==
    /\ IsInput(expr)
    /\ maps = <<EmptyMap>>
    /\ stack = <<Frame(expr)>>
    /\ run = 1
    /\ first = EmptyMap

SetTop(seq, v) == [seq EXCEPT ![Len(seq)] = v]
Pop(seq)       == SubSeq(seq, 1, Len(seq) - 1)

\* The activation on top returns to its caller.
Return == stack' = Pop(stack)

\* The activation on top advances to position i and calls sharing_analysis(e, usage).
Call(i, e) == stack' = Append(SetTop(stack, [top EXCEPT !.i = i]), Frame(e))

\* `for e in es { sharing_analysis(e, usage) }` with the loop at element top.i,
\* where the frame's position `base` stands for the first element.
Loop(es, base) ==
    IF top.i - base + 1 <= Len(es)
    THEN Call(top.i + 1, es[top.i - base + 1])
    ELSE Return

VarArm ==
    /\ stack # <<>>
    /\ top.expr.tag \in {"Var", "FunctionPointer"}
    /\ maps' = SetTop(maps, register(top.expr.symbol, usage))
    /\ Return
    /\ UNCHANGED <<expr, run, first>>

LiteralArm ==
    /\ stack # <<>>
    /\ top.expr.tag \in LiteralTags
    /\ Return
    /\ UNCHANGED <<expr, maps, run, first>>

ListArm ==
    /\ stack # <<>>
    /\ top.expr.tag = "List"
    /\ Loop(top.expr.elements, 0)
    /\ UNCHANGED <<expr, maps, run, first>>

RecordArm ==
    /\ stack # <<>>
    /\ top.expr.tag = "Record"
    /\ Loop(top.expr.fields, 0)
    /\ UNCHANGED <<expr, maps, run, first>>

FieldArm ==
    /\ stack # <<>>
    /\ top.expr.tag = "Field"
    /\ Loop(<<top.expr.record>>, 0)
    /\ UNCHANGED <<expr, maps, run, first>>

DefsArm ==
    /\ stack # <<>>
    /\ top.expr.tag = "Defs"
    /\ Loop(top.expr.assignments \o <<top.expr.body>>, 0)
    /\ UNCHANGED <<expr, maps, run, first>>

\* Slip: the callee symbol of a call by name is not registered.
CallByNameSkipsCallee ==
    /\ stack # <<>>
    /\ top.expr.tag = "CallByName"
    /\ top.i = 0
    /\ stack' = SetTop(stack, [top EXCEPT !.i = 1])
    /\ UNCHANGED <<expr, maps, run, first>>

CallByNameRegister ==
    /\ stack # <<>>
    /\ top.expr.tag = "CallByName"
    /\ top.i = 0
    /\ maps' = SetTop(maps, register(top.expr.symbol, usage))
    /\ stack' = SetTop(stack, [top EXCEPT !.i = 1])
    /\ UNCHANGED <<expr, run, first>>

CallByNameArguments ==
    /\ stack # <<>>
    /\ top.expr.tag = "CallByName"
    /\ top.i >= 1
    /\ Loop(top.expr.arguments, 1)
    /\ UNCHANGED <<expr, maps, run, first>>

CallPointerArm ==
    /\ stack # <<>>
    /\ top.expr.tag = "CallPointer"
    /\ Loop(<<top.expr.function>> \o top.expr.arguments, 0)
    /\ UNCHANGED <<expr, maps, run, first>>

\* sharing_analysis(&boxed_loc_expr.value, usage)
CaseCond ==
    /\ stack # <<>>
    /\ top.expr.tag = "Case"
    /\ top.i = 0
    /\ Call(1, top.expr.cond)
    /\ UNCHANGED <<expr, maps, run, first>>

\* Next branch: `let mut local = usage.clone(); sharing_analysis(&branch.value, &mut local)`,
\* or the end of the loop over the branches.
CaseBranch ==
    /\ stack # <<>>
    /\ top.expr.tag = "Case"
    /\ top.i >= 1
    /\ ~top.merging
    /\ IF top.i <= Len(top.expr.branches)
       THEN /\ maps' = Append(maps, usage)
            /\ stack' = Append(SetTop(stack, [top EXCEPT !.merging = TRUE]),
                               Frame(top.expr.branches[top.i]))
       ELSE /\ Return
            /\ UNCHANGED maps
    /\ UNCHANGED <<expr, run, first>>

\* Slip: the merge loop stops after the first entry the HashMap hands out.
CaseMergeFirstOnly ==
    /\ stack # <<>>
    /\ top.expr.tag = "Case"
    /\ top.merging
    /\ \E key \in DOMAIN usage :
         maps' = [maps EXCEPT ![Len(maps) - 1] = mergeEntry(maps[Len(maps) - 1], key, usage[key]),
                              ![Len(maps)] = EmptyMap]
    /\ UNCHANGED <<expr, stack, run, first>>

\* One iteration of `for (key, value) in local`: the HashMap hands out its
\* remaining entries in an order the program does not control.
CaseMergeEntry ==
    /\ stack # <<>>
    /\ top.expr.tag = "Case"
    /\ top.merging
    /\ \E key \in DOMAIN usage :
         LET local == usage
             outer == maps[Len(maps) - 1]
         IN  maps' = [maps EXCEPT ![Len(maps) - 1] = mergeEntry(outer, key, local[key]),
                                  ![Len(maps)] = remove(local, key)]
    /\ UNCHANGED <<expr, stack, run, first>>

\* `local` is exhausted: it is dropped and the loop moves to the next branch.
CaseMergeDone ==
    /\ stack # <<>>
    /\ top.expr.tag = "Case"
    /\ top.merging
    /\ DOMAIN usage = {}
    /\ maps' = Pop(maps)
    /\ stack' = SetTop(stack, [top EXCEPT !.merging = FALSE, !.i = top.i + 1])
    /\ UNCHANGED <<expr, run, first>>

Next ==
    \/ VarArm
    \/ LiteralArm
    \/ ListArm
    \/ RecordArm
    \/ FieldArm
    \/ DefsArm
    \/ CallByNameRegister
    \/ CallByNameArguments
    \/ CallPointerArm
    \/ CaseCond
    \/ CaseBranch
    \/ CaseMergeEntry
    \/ CaseMergeDone

Spec == Init /\ [][Next]_vars

Done == stack = <<>>

\* The caller's map once the outermost call has returned.
result == maps[1]

\* The caller analyses the same expression once more, with a map of its own
\* (`&mut HashMap` is the only state sharing_analysis is given).
Reanalyse ==
    /\ Done
    /\ run = 1
    /\ first' = result
    /\ run' = 2
    /\ maps' = <<EmptyMap>>
    /\ stack' = <<Frame(expr)>>
    /\ UNCHANGED expr

NextTwice ==
    \/ Next
    \/ Reanalyse

SpecTwice == Init /\ [][NextTwice]_vars

TypeOK ==
    /\ run \in {1, 2}
    /\ Len(maps) >= 1
    /\ \A k \in 1..Len(maps) :
         /\ DOMAIN maps[k] \subseteq Symbols
         /\ \A s \in DOMAIN maps[k] : maps[k][s] \in ReferenceCount

----------------------------------------------------------------------------
(* What an expression says about a symbol, read off the tree alone. *)

\* The sub-expressions sharing_analysis is called on, in call order.
Children(e) ==
    CASE e.tag = "List"        -> e.elements
      [] e.tag = "Record"      -> e.fields
      [] e.tag = "Field"       -> <<e.record>>
      [] e.tag = "Defs"        -> e.assignments \o <<e.body>>
      [] e.tag = "CallByName"  -> e.arguments
      [] e.tag = "CallPointer" -> <<e.function>> \o e.arguments
      [] e.tag = "Case"        -> <<e.cond>> \o e.branches
      [] OTHER                 -> <<>>

\* 1 when the node itself refers to s: a variable, a function pointer, or
\* the callee of a call by name.
OwnUse(e, s) ==
    IF e.tag \in {"Var", "FunctionPointer", "CallByName"} /\ e.symbol = s THEN 1 ELSE 0

Max(S) == CHOOSE m \in S : \A n \in S : n <= m

RECURSIVE Occurrences(_, _), PathReads(_, _), Subexprs(_)

\* How many times s is referred to in e.
Occurrences(e, s) ==
    LET ch == Children(e)
        RECURSIVE Sum(_)
        Sum(k) == IF k = 0 THEN 0 ELSE Occurrences(ch[k], s) + Sum(k - 1)
    IN  OwnUse(e, s) + Sum(Len(ch))

\* The largest number of reads of s on one execution path through e: a path
\* evaluates a case's scrutinee and one of its branches, and every child of
\* any other expression.
PathReads(e, s) ==
    IF e.tag = "Case"
    THEN PathReads(e.cond, s)
         + Max({0} \cup {PathReads(e.branches[k], s) : k \in 1..Len(e.branches)})
    ELSE LET ch == Children(e)
             RECURSIVE Sum(_)
             Sum(k) == IF k = 0 THEN 0 ELSE PathReads(ch[k], s) + Sum(k - 1)
         IN  OwnUse(e, s) + Sum(Len(ch))

Subexprs(e) ==
    LET ch == Children(e)
    IN  {e} \cup UNION {Subexprs(ch[k]) : k \in 1..Len(ch)}

Referenced(e) == {s \in Symbols : Occurrences(e, s) > 0}

IsUnique(m, s) == s \in DOMAIN m /\ m[s] = Unique
IsShared(m, s) == s \in DOMAIN m /\ m[s] = Shared

\* The branches of case expression c that refer to s.
BranchesWith(c, s) == {k \in 1..Len(c.branches) : Occurrences(c.branches[k], s) > 0}

CaseNodes(e) == {c \in Subexprs(e) : c.tag = "Case"}

\* An activation of the Case arm that has merged its last branch and is
\* about to return; `usage` is then the map that activation was given.
CaseReturning ==
    /\ stack # <<>>
    /\ top.expr.tag = "Case"
    /\ ~top.merging
    /\ top.i > Len(top.expr.branches)

\* How many children of frame f sharing_analysis has been called on so far.
Called(f) ==
    CASE f.expr.tag = "CallByName" -> IF f.i = 0 THEN 0 ELSE f.i - 1
      [] f.expr.tag = "Case"       -> IF f.i = 0 THEN 0
                                      ELSE IF f.merging THEN f.i + 1 ELSE f.i
      [] OTHER                     -> f.i

\* The symbols referred to in the part of frame p's expression that has been
\* analysed: its own callee symbol once registered, and the children whose
\* calls have returned (the last called child is still running when another
\* frame sits above p).
VisitedAt(p) ==
    LET f    == stack[p]
        ch   == Children(f.expr)
        done == Called(f) - (IF p < Len(stack) THEN 1 ELSE 0)
    IN  (IF f.expr.tag = "CallByName" /\ f.i >= 1 THEN {f.expr.symbol} ELSE {})
        \cup UNION {Referenced(ch[k]) : k \in 1..done}

Visited ==
    IF stack = <<>> THEN Referenced(expr)
    ELSE UNION {VisitedAt(p) : p \in 1..Len(stack)}

\* Symbol s is used at two or more positions of one sequential construct of e.
SequentialTwice(e, s) ==
    \E n \in Subexprs(e) :
      /\ n.tag \in {"List", "Record", "Defs", "CallByName", "CallPointer"}
      /\ LET ch == Children(n)
         IN  OwnUse(n, s)
               + Cardinality({k \in 1..Len(ch) : Occurrences(ch[k], s) > 0}) >= 2

\* sharing_analysis with every Case taken as scrutinee-then-branches against
\* one map: each reference registered in call order.
RECURSIVE InSequence(_, _)
InSequence(e, u) ==
    LET ch == Children(e)
        u0 == IF e.tag \in {"Var", "FunctionPointer", "CallByName"}
              THEN register(e.symbol, u) ELSE u
        RECURSIVE Fold(_)
        Fold(k) == IF k = 0 THEN u0 ELSE InSequence(ch[k], Fold(k - 1))
    IN  Fold(Len(ch))

----------------------------------------------------------------------------
(* Properties *)

\* C1: in the final map a referenced symbol is Unique exactly when no
\* execution path reads it more than once, and Shared when some path reads
\* it twice or more.
C1_UniqueIffAtMostOneReadPerPath ==
    Done =>
      \A s \in Referenced(expr) :
        /\ IsUnique(result, s) <=> PathReads(expr, s) <= 1
        /\ PathReads(expr, s) >= 2 => IsShared(result, s)

\* C2: soundness: no symbol that some execution path reads twice or more is
\* Unique in the final map.
C2_Sound ==
    Done => \A s \in Symbols : PathReads(expr, s) >= 2 => ~IsUnique(result, s)

C2_Witness ==
    /\ Done
    /\ expr.tag = "Case"
    /\ Len(expr.branches) >= 2
    /\ PathReads(expr, "x") >= 2
    /\ Occurrences(expr.cond, "x") = 1
    /\ IsShared(result, "x")

\* C3: a symbol referred to once in each of two or more branches of one case
\* and nowhere else in the expression is Unique in the final map.
C3_ExclusiveBranchesStayUnique ==
    Done =>
      \A s \in Symbols : \A c \in CaseNodes(expr) :
        ( /\ Cardinality(BranchesWith(c, s)) >= 2
          /\ \A k \in BranchesWith(c, s) : Occurrences(c.branches[k], s) = 1
          /\ Occurrences(expr, s) = Cardinality(BranchesWith(c, s)) )
        => IsUnique(result, s)

\* C4: when a branch of an outer case is itself a case whose branches each
\* refer to x once, and no execution path reads x twice, x is Unique in the
\* final map.
C4_NestedCaseStaysUnique ==
    Done =>
      \A s \in Symbols : \A o \in CaseNodes(expr) : \A j \in 1..Len(o.branches) :
        LET inner == o.branches[j]
        IN  ( /\ inner.tag = "Case"
              /\ Cardinality(BranchesWith(inner, s)) >= 2
              /\ \A k \in BranchesWith(inner, s) : Occurrences(inner.branches[k], s) = 1
              /\ PathReads(expr, s) <= 1 )
            => IsUnique(result, s)

\* C5: a symbol referred to exactly once in the whole expression is Unique
\* in the final map.
C5_SingleReferenceUnique ==
    Done => \A s \in Symbols : Occurrences(expr, s) = 1 => IsUnique(result, s)

\* `case _ of A -> x | B -> y`, each symbol referred to once.
C5_Witness ==
    /\ Done
    /\ expr.tag = "Case"
    /\ Len(expr.branches) = 2
    /\ Occurrences(expr.branches[1], "x") = 1
    /\ Occurrences(expr.branches[2], "y") = 1
    /\ Occurrences(expr, "x") = 1
    /\ Occurrences(expr, "y") = 1
    /\ IsUnique(result, "x")
    /\ IsUnique(result, "y")

\* C6: a symbol used at two or more positions of one list, record,
\* definitions block or call (the callee of a call by name being a position)
\* is Shared in the final map.
C6_SequentialUsesShared ==
    Done => \A s \in Symbols : SequentialTwice(expr, s) => IsShared(result, s)

\* y(x, x)
C6_Witness ==
    /\ Done
    /\ expr = CallByName("y", <<Var("x"), Var("x")>>)
    /\ IsShared(result, "x")
    /\ IsUnique(result, "y")

\* C7: when the Case arm has finished, every symbol referred to both in the
\* scrutinee and in some branch is Shared in the map the arm worked on.
C7_ScrutineeAndBranchShared ==
    CaseReturning =>
      \A s \in Symbols :
        (Occurrences(top.expr.cond, s) > 0 /\ BranchesWith(top.expr, s) # {})
        => IsShared(usage, s)

C7_Witness ==
    /\ CaseReturning
    /\ Len(top.expr.branches) = 2
    /\ Occurrences(top.expr.cond, "x") = 1
    /\ BranchesWith(top.expr, "x") = {2}
    /\ IsShared(usage, "x")

\* C8: every map of the traversal holds only symbols referred to in the part
\* of the tree analysed so far, and the final map holds exactly the symbols
\* referred to in the tree.
C8_KeysAreReferencedSymbols ==
    /\ \A k \in 1..Len(maps) : DOMAIN maps[k] \subseteq Visited
    /\ Done => DOMAIN result = Referenced(expr)

\* `case <literal> of ... -> x`: x only in a branch, y nowhere.
C8_Witness ==
    /\ Done
    /\ expr.tag = "Case"
    /\ expr.cond.tag \in LiteralTags
    /\ Referenced(expr) = {"x"}
    /\ DOMAIN result = {"x"}

\* C9: a second analysis of the same expression, from its own empty map,
\* ends with the map the first analysis ended with, whatever order the
\* branch-local maps were iterated in.
C9_ReanalysisSameMap ==
    (Done /\ run = 2) => result = first

\* The branch-local map of `case x of _ -> y` has two entries to iterate.
C9_Witness ==
    /\ Done
    /\ run = 2
    /\ expr.tag = "Case"
    /\ Len(expr.branches) >= 1
    /\ Occurrences(expr.cond, "x") = 1
    /\ Occurrences(expr.branches[1], "y") = 1
    /\ result = first

\* C10: the final map is the one obtained by registering every reference in
\* call order against a single map; a symbol is absent, Unique or Shared as
\* it occurs zero times, once, or twice or more in the tree.
C10_CountsOccurrences ==
    Done =>
      /\ result = InSequence(expr, EmptyMap)
      /\ \A s \in Symbols :
           /\ Occurrences(expr, s) = 0 => s \notin DOMAIN result
           /\ Occurrences(expr, s) = 1 => IsUnique(result, s)
           /\ Occurrences(expr, s) >= 2 => IsShared(result, s)

\* x once in each of two branches of one case, nowhere else: no path reads
\* it twice, yet it occurs twice.
C10_Witness ==
    /\ Done
    /\ expr.tag = "Case"
    /\ Cardinality(BranchesWith(expr, "x")) = 2
    /\ Occurrences(expr, "x") = 2
    /\ PathReads(expr, "x") = 1
    /\ IsShared(result, "x")

====
